---- MODULE Spec2Model ----
(***************************************************************************)
(* EVCInterface: master-side CANopen SDO client for the PRE electrical     *)
(* vehicle charger (src/EVCInterface.py).                                  *)
(*                                                                         *)
(* Bytes are naturals 0..255, a data field is a sequence of 8 bytes.       *)
(* Python values are tagged records [tag, v]:                              *)
(*   None            [tag |-> "None",  v |-> 0]                            *)
(*   int n           [tag |-> "int",   v |-> n]                            *)
(*   float(n / 10)   [tag |-> "float", v |-> n]   (v is the numerator)     *)
(*   bool b          [tag |-> "bool",  v |-> 1 or 0]                       *)
(*   raised E        [tag |-> "E",     v |-> 0]   (exception leaves call)  *)
(* A physical setter argument is given in hundredths of the unit, so the   *)
(* float 24.57 is the integer 2457.                                        *)
(***************************************************************************)
EXTENDS Integers, Sequences, FiniteSets, TLC

VARIABLES
    node_id,     \* self._node_id
    verbose,     \* self._verbose
    pc,          \* position of the caller inside the current operation
    op,          \* name of the facade method being executed
    arg,         \* its argument (enabled as 1/0, setter value in hundredths)
    request,     \* can.Message built by the method
    wire,        \* frame accepted by bus.send during this call
    response,    \* what _query returned (a frame or None)
    busOutcome,  \* how the transport behaved during this call
    busLog,      \* bus calls made during this call, in order
    result,      \* what the method returned or raised
    calls,       \* number of facade calls started so far
    flagReport,  \* boolean the status report printed for a flag
    callers,     \* per caller thread: its position inside its operation
    bus          \* self._bus: receive buffer and frames still under way

vars == <<node_id, verbose, pc, op, arg, request, wire, response,
          busOutcome, busLog, result, calls, flagReport, callers, bus>>

\* state used only by the status report and by the exchanges on a shared bus
extVars == <<flagReport, callers, bus>>

----------------------------------------------------------------------------
(* Bounds of the model *)

MaxCalls == 3

NodeIds == {1, 48, 127, 128}

\* physical setter arguments, in hundredths of a volt / ampere
SetterValues == {-327690, -327680, -10, -5, 0, 2450, 2457, 327670, 327680,
                 400000, 655350, 655360}

\* specifier bytes a slave (or foreign traffic) may put in byte 0
SlaveSpecifiers == {64, 67, 71, 75, 79, 96, 128}

\* bytes 4..7 of the frames the bus delivers to the facade
SlavePayloads == {<<0, 0, 0, 0>>, <<1, 0, 0, 0>>, <<100, 0, 0, 0>>,
                  <<255, 127, 0, 0>>, <<0, 128, 0, 0>>,
                  <<255, 255, 255, 255>>}

\* byte values used for the exhaustive decoding runs
ByteSamples == {0, 1, 127, 128, 255}
SpecifierSamples == {0, 35, 43, 64, 67, 71, 75, 79, 96, 128}
IndexSamples == {<<0, 33, 0>>, <<54, 33, 0>>, <<1, 33, 1>>, <<255, 255, 255>>}

----------------------------------------------------------------------------
(* Class constants *)

EVC_INTERFACE_VERBOSE_OUTPUT == FALSE
EVC_DEFAULT_NODE_ID == 48
DATA_FRAME_DLC == 8
DATA_FRAME_NO_SUB_INDEX == 0

MASTER_READS_FROM_SLAVE == 64
MASTER_WRITES_TO_SLAVE_4_BYTES == 35
MASTER_WRITES_TO_SLAVE_3_BYTES == 39
MASTER_WRITES_TO_SLAVE_2_BYTES == 43
MASTER_WRITES_TO_SLAVE_1_BYTES == 47

SUCCESSFUL_READ_RESPONSE_4_BYTES == 67
SUCCESSFUL_READ_RESPONSE_3_BYTES == 71
SUCCESSFUL_READ_RESPONSE_2_BYTES == 75
SUCCESSFUL_READ_RESPONSE_1_BYTES == 79
SUCCESSFUL_WRITE_RESPONSE == 96

MODULE_ENABLE == 8448
MODULE_STATUS == 8449
VOLTAGE_DC_OUTPUT_SETPOINT == 8457
CURRENT_DC_OUTPUT_SETPOINT == <<10, 33>>
VOLTAGE_AC_INPUT_L1 == <<33, 33>>
VOLTAGE_AC_INPUT_L2 == <<34, 33>>
VOLTAGE_AC_INPUT_L3 == <<35, 33>>
TEMPERATURE_AMBIENT == 8502

\* bytes 1..2 of a request for each object of the register table
CatalogIndexBytes ==
    {<<8, 16>>, <<9, 16>>, <<10, 16>>, <<24, 16>>, <<0, 33>>, <<1, 33>>,
     <<2, 33>>, <<4, 33>>, <<5, 33>>, <<6, 33>>, <<7, 33>>, <<8, 33>>,
     <<9, 33>>, <<10, 33>>, <<13, 33>>, <<14, 33>>, <<15, 33>>, <<31, 33>>,
     <<33, 33>>, <<34, 33>>, <<35, 33>>, <<36, 33>>, <<37, 33>>, <<38, 33>>,
     <<48, 33>>, <<50, 33>>, <<54, 33>>, <<55, 33>>, <<56, 33>>, <<57, 33>>,
     <<64, 33>>}

----------------------------------------------------------------------------
(* Python values *)

NoneVal == [tag |-> "None", v |-> 0]
IntVal(n) == [tag |-> "int", v |-> n]
FloatVal(n) == [tag |-> "float", v |-> n]
BoolVal(b) == [tag |-> "bool", v |-> IF b THEN 1 ELSE 0]
Raised(e) == [tag |-> e, v |-> 0]

Exceptions == {"AttributeError", "TypeError", "OverflowError"}

ZeroData == <<0, 0, 0, 0, 0, 0, 0, 0>>
NoMessage == [present |-> FALSE, arbitration_id |-> 0, dlc |-> 0,
              data |-> ZeroData, is_extended_id |-> FALSE]
NoResponse == [present |-> FALSE, data |-> ZeroData]
Frame(d) == [present |-> TRUE, data |-> d]

\* a received frame together with the call whose request it answers
NoTagged == [present |-> FALSE, data |-> ZeroData, origin |-> 0]
Tagged(d, id) == [present |-> TRUE, data |-> d, origin |-> id]

IdleCaller == [pc |-> "idle", op |-> "none", id |-> 0, pending |-> 0,
               request |-> NoMessage, response |-> NoTagged,
               result |-> NoneVal]

Callers == {1, 2}

\* recvRaised records that some recv raised can.CanError
EmptyBus == [rx |-> <<>>, inflight |-> <<>>, issued |-> 0,
             recvRaised |-> FALSE]

----------------------------------------------------------------------------
(* int.from_bytes / int.to_bytes *)

RECURSIVE Pow2(_)
Pow2(n) == IF n = 0 THEN 1 ELSE 2 * Pow2(n - 1)

RECURSIVE UnsignedLittle(_)
UnsignedLittle(bs) ==
    IF bs = <<>> THEN 0 ELSE Head(bs) + 256 * UnsignedLittle(Tail(bs))

RECURSIVE UnsignedBig(_)
UnsignedBig(bs) ==
    IF bs = <<>> THEN 0
    ELSE Head(bs) * Pow2(8 * (Len(bs) - 1)) + UnsignedBig(Tail(bs))

\* value of the most significant byte in two's complement
SignedByte(b) == IF b >= 128 THEN b - 256 ELSE b

\* int.from_bytes(bs, byteorder='little', signed=True), bs not empty
from_bytes_little_signed(bs) ==
    UnsignedLittle(SubSeq(bs, 1, Len(bs) - 1))
        + SignedByte(bs[Len(bs)]) * Pow2(8 * (Len(bs) - 1))

\* int.from_bytes(bs, signed=True): byteorder defaults to 'big'
from_bytes_default_signed(bs) ==
    SignedByte(Head(bs)) * Pow2(8 * (Len(bs) - 1)) + UnsignedBig(Tail(bs))

\* int.to_bytes(v, 2, 'little', signed=False) raises OverflowError
to_bytes_2_unsigned_overflows(v) == v < 0 \/ v >= 65536
\* variant: byteorder 'big'
to_bytes_2_unsigned_big(v) == <<(v \div 256) % 256, v % 256>>

to_bytes_2_unsigned(v) == <<v % 256, (v \div 256) % 256>>

\* int(x * 10) for the float x = h / 100: truncation toward zero
int_times_10(h) == IF h >= 0 THEN h \div 10 ELSE -((-h) \div 10)

----------------------------------------------------------------------------
(* Frame codec *)

_arbitration_id == 1536 + node_id

_canopen_message(data) ==
    [present |-> TRUE, arbitration_id |-> _arbitration_id,
     dlc |-> DATA_FRAME_DLC, data |-> data, is_extended_id |-> FALSE]

\* variant: the write acknowledgement branch decodes the payload bytes
_decode_response_ack_payload(r) ==
    IF ~r.present THEN Raised("AttributeError")
    ELSE IF r.data[1] = 64
        THEN IntVal(from_bytes_little_signed(SubSeq(r.data, 5, 8)))
    ELSE IF r.data[1] = 71
        THEN IntVal(from_bytes_little_signed(SubSeq(r.data, 5, 7)))
    ELSE IF r.data[1] = 75
        THEN IntVal(from_bytes_little_signed(SubSeq(r.data, 5, 6)))
    ELSE IF r.data[1] = 79
        THEN IntVal(from_bytes_default_signed(SubSeq(r.data, 5, 5)))
    ELSE IF r.data[1] = 96
        THEN IntVal(from_bytes_little_signed(SubSeq(r.data, 5, 6)))
    ELSE NoneVal

\* variant: a response with a non-zero sub-index byte is rejected
_decode_response_checks_sub_index(r) ==
    IF ~r.present THEN Raised("AttributeError")
    ELSE IF r.data[4] # 0 THEN NoneVal
    ELSE IF r.data[1] = 64
        THEN IntVal(from_bytes_little_signed(SubSeq(r.data, 5, 8)))
    ELSE IF r.data[1] = 71
        THEN IntVal(from_bytes_little_signed(SubSeq(r.data, 5, 7)))
    ELSE IF r.data[1] = 75
        THEN IntVal(from_bytes_little_signed(SubSeq(r.data, 5, 6)))
    ELSE IF r.data[1] = 79
        THEN IntVal(from_bytes_default_signed(SubSeq(r.data, 5, 5)))
    ELSE IF r.data[1] = 96
        THEN IntVal(0)
    ELSE NoneVal

\* response.data of None raises AttributeError
_decode_response(r) ==
    IF ~r.present THEN Raised("AttributeError")
    ELSE IF r.data[1] = 64
        THEN IntVal(from_bytes_little_signed(SubSeq(r.data, 5, 8)))
    ELSE IF r.data[1] = 71
        THEN IntVal(from_bytes_little_signed(SubSeq(r.data, 5, 7)))
    ELSE IF r.data[1] = 75
        THEN IntVal(from_bytes_little_signed(SubSeq(r.data, 5, 6)))
    ELSE IF r.data[1] = 79
        THEN IntVal(from_bytes_default_signed(SubSeq(r.data, 5, 5)))
    ELSE IF r.data[1] = 96
        THEN IntVal(0)
    ELSE NoneVal

----------------------------------------------------------------------------
(* Device facade: the data field each method builds *)

is_module_enabled_data ==
    <<MASTER_READS_FROM_SLAVE>> \o to_bytes_2_unsigned(MODULE_ENABLE)
        \o <<DATA_FRAME_NO_SUB_INDEX, 0, 0, 0, 0>>

\* variant: the read specifier 0x40 in front of the write-style payload
enable_module_data_read_specifier(enabled) ==
    <<MASTER_READS_FROM_SLAVE>> \o to_bytes_2_unsigned(MODULE_ENABLE)
        \o <<DATA_FRAME_NO_SUB_INDEX, IF enabled THEN 1 ELSE 0, 0, 0, 0>>

enable_module_data(enabled) ==
    <<MASTER_WRITES_TO_SLAVE_2_BYTES>> \o to_bytes_2_unsigned(MODULE_ENABLE)
        \o <<DATA_FRAME_NO_SUB_INDEX, IF enabled THEN 1 ELSE 0, 0, 0, 0>>

get_module_status_data ==
    <<MASTER_READS_FROM_SLAVE>> \o to_bytes_2_unsigned(MODULE_STATUS)
        \o <<DATA_FRAME_NO_SUB_INDEX, 0, 0, 0, 0>>

get_dc_output_voltage_setpoint_data ==
    <<MASTER_READS_FROM_SLAVE>>
        \o to_bytes_2_unsigned(VOLTAGE_DC_OUTPUT_SETPOINT)
        \o <<DATA_FRAME_NO_SUB_INDEX, 0, 0, 0, 0>>

\* defined when output_voltage.to_bytes(2, "little", signed=False) succeeds
set_dc_output_voltage_setpoint_data(output_voltage) ==
    <<MASTER_WRITES_TO_SLAVE_2_BYTES>>
        \o to_bytes_2_unsigned(VOLTAGE_DC_OUTPUT_SETPOINT)
        \o <<DATA_FRAME_NO_SUB_INDEX>> \o to_bytes_2_unsigned(output_voltage)
        \o <<0, 0>>

get_dc_output_current_setpoint_data ==
    <<MASTER_READS_FROM_SLAVE>> \o CURRENT_DC_OUTPUT_SETPOINT
        \o <<DATA_FRAME_NO_SUB_INDEX, 0, 0, 0, 0>>

set_dc_output_current_setpoint_data(output_current) ==
    <<MASTER_WRITES_TO_SLAVE_2_BYTES>> \o CURRENT_DC_OUTPUT_SETPOINT
        \o <<DATA_FRAME_NO_SUB_INDEX>> \o to_bytes_2_unsigned(output_current)
        \o <<0, 0>>

get_ac_input_l1_voltage_data ==
    <<MASTER_READS_FROM_SLAVE>> \o VOLTAGE_AC_INPUT_L1
        \o <<DATA_FRAME_NO_SUB_INDEX, 0, 0, 0, 0>>

get_ac_input_l2_voltage_data ==
    <<MASTER_READS_FROM_SLAVE>> \o VOLTAGE_AC_INPUT_L2
        \o <<DATA_FRAME_NO_SUB_INDEX, 0, 0, 0, 0>>

get_ac_input_l3_voltage_data ==
    <<MASTER_READS_FROM_SLAVE>> \o VOLTAGE_AC_INPUT_L3
        \o <<DATA_FRAME_NO_SUB_INDEX, 0, 0, 0, 0>>

get_ambient_temperature_data ==
    <<MASTER_READS_FROM_SLAVE>> \o to_bytes_2_unsigned(TEMPERATURE_AMBIENT)
        \o <<DATA_FRAME_NO_SUB_INDEX, 0, 0, 0, 0>>

----------------------------------------------------------------------------
(* Device facade: what each method returns for what _query returned *)

\* return response is not None and response > 0
EnabledReturn(r) ==
    LET d == _decode_response(r)
    IN  IF d.tag \in Exceptions THEN d
        ELSE BoolVal(d.tag # "None" /\ d.v > 0)

\* return 0 if response is None else response
StatusReturn(r) ==
    LET d == _decode_response(r)
    IN  IF d.tag \in Exceptions THEN d
        ELSE IF d.tag = "None" THEN IntVal(0) ELSE d

\* variant: float(response), the division by the scale factor left out
GuardedFloatReturnUnscaled(r) ==
    LET d == _decode_response(r)
    IN  IF d.tag \in Exceptions THEN d
        ELSE IF d.tag # "None" THEN FloatVal(10 * d.v) ELSE NoneVal

\* return float(response / 10) if response is not None else None
GuardedFloatReturn(r) ==
    LET d == _decode_response(r)
    IN  IF d.tag \in Exceptions THEN d
        ELSE IF d.tag # "None" THEN FloatVal(d.v) ELSE NoneVal

\* return float(self._decode_response(...) / 10): None / 10 is a TypeError
UnguardedFloatReturn(r) ==
    LET d == _decode_response(r)
    IN  IF d.tag \in Exceptions THEN d
        ELSE IF d.tag = "None" THEN Raised("TypeError") ELSE FloatVal(d.v)

Getters == {"is_module_enabled", "get_module_status",
            "get_dc_output_voltage_setpoint", "get_dc_output_current_setpoint",
            "get_ac_input_l1_voltage", "get_ac_input_l2_voltage",
            "get_ac_input_l3_voltage", "get_ambient_temperature"}

Setters == {"set_dc_output_voltage_setpoint", "set_dc_output_current_setpoint"}

FacadeOps == Getters \cup Setters \cup {"enable_module"}

FacadeReturn(o, r) ==
    CASE o \in {"is_module_enabled", "enable_module"} -> EnabledReturn(r)
      [] o = "get_module_status" -> StatusReturn(r)
      [] o \in {"get_dc_output_voltage_setpoint",
                "set_dc_output_voltage_setpoint",
                "get_ambient_temperature"} -> GuardedFloatReturn(r)
      [] OTHER -> UnguardedFloatReturn(r)

----------------------------------------------------------------------------
(* Initial state: EVCInterface(node_id) has been constructed *)

Init ==
    /\ node_id \in NodeIds
    /\ verbose = EVC_INTERFACE_VERBOSE_OUTPUT
    /\ pc = "idle"
    /\ op = "none"
    /\ arg = 0
    /\ request = NoMessage
    /\ wire = NoMessage
    /\ response = NoResponse
    /\ busOutcome = "none"
    /\ busLog = <<>>
    /\ result = NoneVal
    /\ calls = 0
    /\ flagReport = FALSE
    /\ callers = [c \in Callers |-> IdleCaller]
    /\ bus = EmptyBus

CanCall == pc \in {"idle", "done"} /\ calls < MaxCalls

\* a method has built its request and enters _query
StartQuery(o, a, data) ==
    /\ CanCall
    /\ calls' = calls + 1
    /\ op' = o
    /\ arg' = a
    /\ request' = _canopen_message(data)
    /\ wire' = NoMessage
    /\ response' = NoResponse
    /\ busOutcome' = "none"
    /\ busLog' = <<>>
    /\ result' = NoneVal
    /\ pc' = "send"
    /\ UNCHANGED <<node_id, verbose>>
    /\ UNCHANGED extVars

\* to_bytes raised OverflowError while the data list was being built
EncodingRaises(o, a) ==
    /\ CanCall
    /\ calls' = calls + 1
    /\ op' = o
    /\ arg' = a
    /\ request' = NoMessage
    /\ wire' = NoMessage
    /\ response' = NoResponse
    /\ busOutcome' = "none"
    /\ busLog' = <<>>
    /\ result' = Raised("OverflowError")
    /\ pc' = "done"
    /\ UNCHANGED <<node_id, verbose>>
    /\ UNCHANGED extVars

set_verbose ==
    /\ pc \in {"idle", "done"}
    /\ \E b \in BOOLEAN : verbose' = b
    /\ UNCHANGED <<node_id, pc, op, arg, request, wire, response,
                   busOutcome, busLog, result, calls>>
    /\ UNCHANGED extVars

is_module_enabled ==
    StartQuery("is_module_enabled", 0, is_module_enabled_data)

enable_module ==
    \E enabled \in BOOLEAN :
        StartQuery("enable_module", IF enabled THEN 1 ELSE 0,
                   enable_module_data(enabled))

get_module_status ==
    StartQuery("get_module_status", 0, get_module_status_data)

get_dc_output_voltage_setpoint ==
    StartQuery("get_dc_output_voltage_setpoint", 0,
               get_dc_output_voltage_setpoint_data)

set_dc_output_voltage_setpoint ==
    \E voltage \in SetterValues :
        LET output_voltage == int_times_10(voltage)
        IN  IF to_bytes_2_unsigned_overflows(output_voltage)
            THEN EncodingRaises("set_dc_output_voltage_setpoint", voltage)
            ELSE StartQuery("set_dc_output_voltage_setpoint", voltage,
                     set_dc_output_voltage_setpoint_data(output_voltage))

get_dc_output_current_setpoint ==
    StartQuery("get_dc_output_current_setpoint", 0,
               get_dc_output_current_setpoint_data)

set_dc_output_current_setpoint ==
    \E current \in SetterValues :
        LET output_current == int_times_10(current)
        IN  IF to_bytes_2_unsigned_overflows(output_current)
            THEN EncodingRaises("set_dc_output_current_setpoint", current)
            ELSE StartQuery("set_dc_output_current_setpoint", current,
                     set_dc_output_current_setpoint_data(output_current))

get_ac_input_l1_voltage ==
    StartQuery("get_ac_input_l1_voltage", 0, get_ac_input_l1_voltage_data)

get_ac_input_l2_voltage ==
    StartQuery("get_ac_input_l2_voltage", 0, get_ac_input_l2_voltage_data)

get_ac_input_l3_voltage ==
    StartQuery("get_ac_input_l3_voltage", 0, get_ac_input_l3_voltage_data)

get_ambient_temperature ==
    StartQuery("get_ambient_temperature", 0, get_ambient_temperature_data)

----------------------------------------------------------------------------
(* _query: one send, then one recv; can.CanError is caught and None is     *)
(* returned.  The method then decodes what _query returned and returns.    *)

\* self._bus.send(request, timeout=0.5) returns
BusSendOk ==
    /\ pc = "send"
    /\ busLog' = Append(busLog, "send")
    /\ wire' = request
    /\ pc' = "recv"
    /\ UNCHANGED <<node_id, verbose, op, arg, request, response,
                   busOutcome, result, calls>>
    /\ UNCHANGED extVars

\* variant: the except branch sends the request again instead of giving up
BusSendRaisesRetry ==
    /\ pc = "send"
    /\ busLog' = Append(busLog, "send")
    /\ Len(busLog) < 2
    /\ busOutcome' = "send_error"
    /\ pc' = "send"
    /\ UNCHANGED <<node_id, verbose, op, arg, request, wire, response,
                   result, calls>>
    /\ UNCHANGED extVars

\* self._bus.send raises can.CanError (bus error or send timeout)
BusSendRaises ==
    /\ pc = "send"
    /\ busLog' = Append(busLog, "send")
    /\ busOutcome' = "send_error"
    /\ response' = NoResponse
    /\ result' = FacadeReturn(op, NoResponse)
    /\ pc' = "done"
    /\ UNCHANGED <<node_id, verbose, op, arg, request, wire, calls>>
    /\ UNCHANGED extVars

\* the frames self._bus.recv may deliver: bytes 1..3 echo the request
SlaveFrames ==
    {<<s>> \o SubSeq(request.data, 2, 4) \o p :
        s \in SlaveSpecifiers, p \in SlavePayloads}

\* self._bus.recv(timeout=1.0) returns a frame
BusRecvFrame ==
    /\ pc = "recv"
    /\ \E d \in SlaveFrames :
        /\ response' = Frame(d)
        /\ result' = FacadeReturn(op, Frame(d))
    /\ busLog' = Append(busLog, "recv")
    /\ busOutcome' = "ok"
    /\ pc' = "done"
    /\ UNCHANGED <<node_id, verbose, op, arg, request, wire, calls>>
    /\ UNCHANGED extVars

\* self._bus.recv(timeout=1.0) returns None: nothing arrived in time
BusRecvTimeout ==
    /\ pc = "recv"
    /\ response' = NoResponse
    /\ result' = FacadeReturn(op, NoResponse)
    /\ busLog' = Append(busLog, "recv")
    /\ busOutcome' = "recv_timeout"
    /\ pc' = "done"
    /\ UNCHANGED <<node_id, verbose, op, arg, request, wire, calls>>
    /\ UNCHANGED extVars

\* variant: _query has no except clause, so the can.CanError of recv leaves
\* _query and the calling method
BusRecvRaisesPropagates ==
    /\ pc = "recv"
    /\ response' = NoResponse
    /\ result' = Raised("CanError")
    /\ busLog' = Append(busLog, "recv")
    /\ busOutcome' = "recv_error"
    /\ pc' = "done"
    /\ UNCHANGED <<node_id, verbose, op, arg, request, wire, calls>>
    /\ UNCHANGED extVars

\* self._bus.recv raises can.CanError
BusRecvRaises ==
    /\ pc = "recv"
    /\ response' = NoResponse
    /\ result' = FacadeReturn(op, NoResponse)
    /\ busLog' = Append(busLog, "recv")
    /\ busOutcome' = "recv_error"
    /\ pc' = "done"
    /\ UNCHANGED <<node_id, verbose, op, arg, request, wire, calls>>
    /\ UNCHANGED extVars

Next ==
    \/ set_verbose
    \/ is_module_enabled
    \/ enable_module
    \/ get_module_status
    \/ get_dc_output_voltage_setpoint
    \/ set_dc_output_voltage_setpoint
    \/ get_dc_output_current_setpoint
    \/ set_dc_output_current_setpoint
    \/ get_ac_input_l1_voltage
    \/ get_ac_input_l2_voltage
    \/ get_ac_input_l3_voltage
    \/ get_ambient_temperature
    \/ BusSendOk
    \/ BusSendRaises
    \/ BusRecvFrame
    \/ BusRecvTimeout
    \/ BusRecvRaises

Spec == Init /\ [][Next]_vars

----------------------------------------------------------------------------
(* Decoding on its own: _decode_response applied to one frame *)

DecodeFrames ==
    {<<s>> \o i \o <<b4, b5, b6, b7>> :
        s \in SpecifierSamples, i \in IndexSamples,
        b4 \in ByteSamples, b5 \in ByteSamples,
        b6 \in ByteSamples, b7 \in ByteSamples}

InitDecode ==
    /\ node_id = EVC_DEFAULT_NODE_ID
    /\ verbose = EVC_INTERFACE_VERBOSE_OUTPUT
    /\ pc = "frame"
    /\ op = "_decode_response"
    /\ arg = 0
    /\ request = NoMessage
    /\ wire = NoMessage
    /\ \E d \in DecodeFrames : response = Frame(d)
    /\ busOutcome = "none"
    /\ busLog = <<>>
    /\ result = NoneVal
    /\ calls = 0
    /\ flagReport = FALSE
    /\ callers = [c \in Callers |-> IdleCaller]
    /\ bus = EmptyBus

DecodeCall ==
    /\ pc = "frame"
    /\ result' = _decode_response(response)
    /\ pc' = "decoded"
    /\ UNCHANGED <<node_id, verbose, op, arg, request, wire, response,
                   busOutcome, busLog, calls>>
    /\ UNCHANGED extVars

NextDecode == DecodeCall

SpecDecode == InitDecode /\ [][NextDecode]_vars

----------------------------------------------------------------------------
(* Properties *)

ReadAckSpecifiers ==
    {SUCCESSFUL_READ_RESPONSE_4_BYTES, SUCCESSFUL_READ_RESPONSE_3_BYTES,
     SUCCESSFUL_READ_RESPONSE_2_BYTES, SUCCESSFUL_READ_RESPONSE_1_BYTES}

\* number of value bytes a read-ack specifier announces
ReadAckWidth(s) ==
    CASE s = SUCCESSFUL_READ_RESPONSE_4_BYTES -> 4
      [] s = SUCCESSFUL_READ_RESPONSE_3_BYTES -> 3
      [] s = SUCCESSFUL_READ_RESPONSE_2_BYTES -> 2
      [] s = SUCCESSFUL_READ_RESPONSE_1_BYTES -> 1

SendCount == Len(SelectSeq(busLog, LAMBDA c : c = "send"))

\* C1: for each read-ack specifier 0x43/0x47/0x4B/0x4F, _decode_response
\* returns the two's-complement little-endian integer of exactly 4/3/2/1
\* bytes starting at byte 4.
C1_ReadAckDecodesSigned ==
    (pc = "decoded" /\ response.data[1] \in ReadAckSpecifiers) =>
        result = IntVal(from_bytes_little_signed(
                     SubSeq(response.data, 5,
                            4 + ReadAckWidth(response.data[1]))))

\* C2: a response whose byte 0 is none of 0x43, 0x47, 0x4B, 0x4F, 0x60
\* (0x40 included) decodes to the absent outcome, never to an integer.
C2_UnknownSpecifierFails ==
    (pc = "decoded"
        /\ response.data[1] \notin
               ReadAckSpecifiers \cup {SUCCESSFUL_WRITE_RESPONSE}) =>
        result = NoneVal

\* C3: when the slave answers enable_module with a write acknowledgement
\* (byte 0 = 0x60), enable_module reports success, for both arguments.
C3_EnableAcknowledged ==
    (pc = "done" /\ op = "enable_module" /\ response.present
        /\ response.data[1] = SUCCESSFUL_WRITE_RESPONSE) =>
        result = BoolVal(TRUE)

\* C4: when the receive times out (recv returns no frame), every getter
\* returns a "no reading" result: no exception escapes and no number is
\* returned.
C4_TimeoutGivesNoReading ==
    (pc = "done" /\ op \in Getters /\ busOutcome = "recv_timeout") =>
        result.tag \notin Exceptions \cup {"int", "float"}

\* C5: whenever a getter returns a number, a response frame with a
\* recognised read-ack specifier was received during that call; in
\* particular get_module_status does not return 0 for an unrecognised
\* specifier.
C5_NoFabricatedValue ==
    (pc = "done" /\ op \in Getters /\ result.tag \in {"int", "float"}) =>
        response.present /\ response.data[1] \in ReadAckSpecifiers

\* C6 (as stated): every facade operation makes exactly one send, then
\* exactly one receive if the send succeeded and none if it failed, and
\* never a second send.
C6_ExactlyOneSend ==
    /\ SendCount <= 1
    /\ (pc = "done" /\ op \in FacadeOps) =>
           busLog = IF busOutcome = "send_error" THEN <<"send">>
                    ELSE <<"send", "recv">>

\* C6 (amended): a facade operation makes at most one send and never a
\* second one: no bus call at all when the setter's value could not be
\* encoded, otherwise exactly one send, followed by exactly one receive if
\* the send succeeded and by no receive if it failed.
C6_BusCallSequence ==
    /\ SendCount <= 1
    /\ pc = "send" => busLog = <<>>
    /\ pc = "recv" => busLog = <<"send">>
    /\ (pc = "done" /\ op \in FacadeOps) =>
           busLog = IF result.tag = "OverflowError" THEN <<>>
                    ELSE IF busOutcome = "send_error" THEN <<"send">>
                    ELSE <<"send", "recv">>

\* C6 witness: a call whose receive timed out has finished with one send and
\* one receive.
C6_Witness ==
    /\ pc = "done"
    /\ op \in FacadeOps
    /\ busOutcome = "recv_timeout"
    /\ busLog = <<"send", "recv">>

\* the read-ack frame carrying the payload bytes of a 2-byte write request
SyntheticReadAck(req) ==
    Frame(<<SUCCESSFUL_READ_RESPONSE_2_BYTES>> \o SubSeq(req.data, 2, 4)
              \o SubSeq(req.data, 5, 6) \o <<0, 0>>)

\* C7: every raw integer of the signed 2-byte range is encoded by the
\* setters, and the encoded payload bytes, read back under specifier 0x4B,
\* decode to the raw integer; every raw value the setters accept decodes
\* back to itself.
C7_WriteReadRoundTrip ==
    (op \in Setters /\ pc # "idle") =>
        /\ int_times_10(arg) \in -32768..32767 => request.present
        /\ request.present =>
               _decode_response(SyntheticReadAck(request))
                   = IntVal(int_times_10(arg))

\* C8: a setter whose scaled value lies outside the signed 2-byte range
\* fails with an encoding error and sends no frame.
C8_OutOfRangeRejected ==
    (op \in Setters /\ pc # "idle"
        /\ int_times_10(arg) \notin -32768..32767) =>
        /\ pc = "done"
        /\ result.tag = "OverflowError"
        /\ busLog = <<>>
        /\ ~wire.present

\* C9: get_module_status returns the unsigned 16-bit mask the slave put in
\* bytes 4..5 of its 2-byte read-ack response.
C9_StatusIsUnsignedMask ==
    (pc = "done" /\ op = "get_module_status" /\ response.present
        /\ response.data[1] = SUCCESSFUL_READ_RESPONSE_2_BYTES) =>
        /\ result = IntVal(response.data[5] + 256 * response.data[6])
        /\ result.v \in 0..65535

\* C10: enable_module(enabled) sends one request whose data bytes are
\* [0x2B, 0x00, 0x21, 0x00, b, 0, 0, 0], b = 1 for true and 0 for false.
C10_EnableModuleRequest ==
    (op = "enable_module" /\ pc # "idle") =>
        /\ arg \in {0, 1}
        /\ request.data = <<43, 0, 33, 0, arg, 0, 0, 0>>
        /\ pc \in {"recv", "done"} /\ busOutcome # "send_error" =>
               wire.data = <<43, 0, 33, 0, arg, 0, 0, 0>>
        /\ SendCount <= 1

\* C10 witness: the request of enable_module(True) has been sent.
C10_Witness ==
    /\ op = "enable_module"
    /\ arg = 1
    /\ pc = "recv"
    /\ wire.present
    /\ wire.data = <<43, 0, 33, 0, 1, 0, 0, 0>>


\* C11: get_ambient_temperature sends [0x40, 0x36, 0x21, 0, 0, 0, 0, 0] and
\* returns r / 10 for every 2-byte read ack carrying the signed raw value r
\* in bytes 4..5.
C11_AmbientTemperature ==
    (op = "get_ambient_temperature" /\ pc # "idle") =>
        /\ request.data = <<64, 54, 33, 0, 0, 0, 0, 0>>
        /\ pc \in {"recv", "done"} /\ busOutcome # "send_error" =>
               wire.data = <<64, 54, 33, 0, 0, 0, 0, 0>>
        /\ (pc = "done" /\ response.present
               /\ response.data[1] = SUCCESSFUL_READ_RESPONSE_2_BYTES) =>
               /\ result.tag = "float"
               /\ result.v = response.data[5]
                      + 256 * SignedByte(response.data[6])

\* C11 witness: raw value 100 has been read and 10.0 returned.
C11_Witness ==
    /\ op = "get_ambient_temperature"
    /\ pc = "done"
    /\ response = Frame(<<75, 54, 33, 0, 100, 0, 0, 0>>)
    /\ result = FloatVal(100)

\* C12: a response whose byte 0 is 0x60 decodes to the success sentinel 0,
\* whatever bytes 1..7 hold.
C12_WriteAckDecodesToZero ==
    (pc = "decoded" /\ response.data[1] = SUCCESSFUL_WRITE_RESPONSE) =>
        result = IntVal(0)

\* C12 witness: a write acknowledgement with non-zero index and payload
\* bytes has been decoded.
C12_Witness ==
    /\ pc = "decoded"
    /\ response.data[1] = SUCCESSFUL_WRITE_RESPONSE
    /\ response.data[2] = 255
    /\ response.data[5] = 255
    /\ response.data[6] = 127
    /\ result = IntVal(0)


\* a failed exchange: the send failed, no frame was received, or the frame
\* received has an unrecognised specifier
ExchangeFailed ==
    \/ busOutcome \in {"send_error", "recv_timeout", "recv_error"}
    \/ /\ response.present
       /\ response.data[1] \notin
              ReadAckSpecifiers \cup {SUCCESSFUL_WRITE_RESPONSE}

\* what the method returns for a write acknowledgement
AcknowledgedResult(o) ==
    FacadeReturn(o, Frame(<<SUCCESSFUL_WRITE_RESPONSE, 0, 0, 0, 0, 0, 0, 0>>))

\* C13: on any failure of the exchange every setter returns a "write not
\* confirmed" result: no exception, no number, and a result different from
\* the one returned for a write acknowledgement.
C13_WriteNotConfirmed ==
    (pc = "done" /\ op \in Setters \cup {"enable_module"}
        /\ ExchangeFailed) =>
        /\ result.tag \notin Exceptions \cup {"int", "float"}
        /\ result # AcknowledgedResult(op)

\* the integer nearest to h / 10, for h >= 0
NearestTenth(h) == (h + 5) \div 10

\* C14: the raw integer a setter sends is the physical value times 10
\* rounded to the nearest integer (24.57 -> 246), not truncated; stated
\* for the non-negative values whose request was encoded.
C14_SetterRoundsToNearest ==
    (op \in Setters /\ pc # "idle" /\ request.present /\ arg >= 0) =>
        request.data[5] + 256 * request.data[6] = NearestTenth(arg)


\* C15: every frame sent has an 8-byte data field, DLC 8 and a non-extended
\* ID; byte 0 is 0x40 (read) or 0x2B (2-byte write); bytes 1..2 are the
\* little-endian index of a catalog register; byte 3 is 0; bytes 4..7 are 0
\* for reads and bytes 6..7 are 0 for writes.
C15_SentFrameShape ==
    wire.present =>
        /\ Len(wire.data) = 8
        /\ \A i \in 1..8 : wire.data[i] \in 0..255
        /\ wire.dlc = 8
        /\ ~wire.is_extended_id
        /\ wire.data[1] \in {64, 43}
        /\ <<wire.data[2], wire.data[3]>> \in CatalogIndexBytes
        /\ wire.data[4] = 0
        /\ wire.data[1] = 64 => SubSeq(wire.data, 5, 8) = <<0, 0, 0, 0>>
        /\ wire.data[1] = 43 => SubSeq(wire.data, 7, 8) = <<0, 0>>

\* C15 witness: after an earlier call, a 2-byte write with a non-zero
\* payload has been sent.
C15_Witness ==
    /\ calls >= 2
    /\ wire.present
    /\ wire.data[1] = 43
    /\ wire.data[5] = 245

\* C16: the node address fits in 7 bits and every frame sent carries the
\* arbitration ID 0x600 + node_address, which lies within 0x600..0x67F.
C16_ArbitrationIdRange ==
    wire.present =>
        /\ node_id \in 0..127
        /\ wire.arbitration_id = 1536 + node_id
        /\ wire.arbitration_id \in 1536..1663


\* number of value bytes, starting at byte 4, that byte 0 selects: the
\* read-ack widths, the four bytes read for 0x40, none otherwise
SelectedWidth(s) ==
    IF s \in ReadAckSpecifiers THEN ReadAckWidth(s)
    ELSE IF s = 64 THEN 4
    ELSE 0

\* the frame with the same byte 0 and the same selected value bytes, and
\* zero in bytes 1..3 and in the trailing bytes that are not selected
Canonical(d) ==
    [i \in 1..8 |->
        IF i = 1 \/ (i >= 5 /\ i < 5 + SelectedWidth(d[1])) THEN d[i] ELSE 0]

----------------------------------------------------------------------------
(* Status report of EVCInterfaceTest.py: one line per flag of the mask      *)
(* returned by get_module_status                                           *)

MODULE_STATUS_CHARGER_ON == 1
MODULE_STATUS_POWER_ERROR == 2
MODULE_STATUS_INPUT_OVERVOLTAGE == 4
MODULE_STATUS_INPUT_UNDERVOLTAGE == 8
MODULE_STATUS_OUTPUT_OVERVOLTAGE == 16
MODULE_STATUS_OUTPUT_UNDERVOLTAGE == 32
MODULE_STATUS_OVERTEMPERATURE == 128
MODULE_STATUS_UAUX_ERROR == 256
MODULE_STATUS_CHARGE_OR_V2G == 512
MODULE_STATUS_GRID_ERROR == 1024
MODULE_STATUS_HW_INTERLOCK_ERROR == 2048
MODULE_STATUS_SERVICE_MODE == 4096

\* the flags the report prints as `status & flag is True`
ReportedFlags ==
    {MODULE_STATUS_CHARGER_ON, MODULE_STATUS_POWER_ERROR,
     MODULE_STATUS_INPUT_OVERVOLTAGE, MODULE_STATUS_INPUT_UNDERVOLTAGE,
     MODULE_STATUS_OUTPUT_OVERVOLTAGE, MODULE_STATUS_OUTPUT_UNDERVOLTAGE,
     MODULE_STATUS_OVERTEMPERATURE, MODULE_STATUS_UAUX_ERROR,
     MODULE_STATUS_GRID_ERROR, MODULE_STATUS_HW_INTERLOCK_ERROR,
     MODULE_STATUS_SERVICE_MODE}

\* values get_module_status can return (a signed 2-byte value)
StatusSamples == {-32768, -1, 0, 1, 2, 5, 128, 1024, 4096, 6079, 32767}

RECURSIVE BitAnd(_, _)
BitAnd(a, b) ==
    IF a = 0 \/ b = 0 THEN 0
    ELSE (a % 2) * (b % 2) + 2 * BitAnd(a \div 2, b \div 2)

\* status & flag for a flag below 2^16: a negative status is an infinite
\* two's-complement bit string whose low 16 bits are status mod 2^16
py_and(status, flag) ==
    BitAnd(IF status >= 0 THEN status ELSE status + 65536, flag)

\* x is True: identity with the bool singleton, which no int is
is_True(x) == x = BoolVal(TRUE)

\* status & flag is True  parses as  (status & flag) is True
StatusFlagReport(status, flag) == is_True(IntVal(py_and(status, flag)))

InitStatus ==
    /\ node_id = EVC_DEFAULT_NODE_ID
    /\ verbose = EVC_INTERFACE_VERBOSE_OUTPUT
    /\ pc = "status"
    /\ op = "get_module_status"
    /\ \E flag \in ReportedFlags : arg = flag
    /\ request = NoMessage
    /\ wire = NoMessage
    /\ response = NoResponse
    /\ busOutcome = "none"
    /\ busLog = <<>>
    /\ \E status \in StatusSamples : result = IntVal(status)
    /\ calls = 0
    /\ flagReport = FALSE
    /\ callers = [c \in Callers |-> IdleCaller]
    /\ bus = EmptyBus

\* print(..., status & evc.MODULE_STATUS_... is True)
PrintStatusFlag ==
    /\ pc = "status"
    /\ flagReport' = StatusFlagReport(result.v, arg)
    /\ pc' = "reported"
    /\ UNCHANGED <<node_id, verbose, op, arg, request, wire, response,
                   busOutcome, busLog, result, calls, callers, bus>>

NextStatus == PrintStatusFlag

SpecStatus == InitStatus /\ [][NextStatus]_vars

\* C19: for every status mask and every named flag, the boolean the status
\* report derives is true exactly when the flag's bit is set in the mask.
C19_FlagReportMatchesBit ==
    (pc = "reported" /\ result.v \in 0..65535) =>
        (flagReport <=> py_and(result.v, arg) # 0)


----------------------------------------------------------------------------
(* Exchanges on the shared bus: caller threads of one EVCInterface, the    *)
(* receive buffer of self._bus, and a slave that answers every request it  *)
(* receives with exactly one frame, which may reach the buffer late        *)

MaxExchanges == 3

ExchangeOps == {"get_ambient_temperature", "get_dc_output_voltage_setpoint",
                "get_module_status"}

\* bytes 4..7 the slave puts in its answer: the content of the register
\* the request names (10.0 degrees, 24.5 volts, a status mask)
SlaveRegister(req) ==
    CASE SubSeq(req.data, 2, 3) = <<54, 33>> -> <<100, 0, 0, 0>>
      [] SubSeq(req.data, 2, 3) = <<9, 33>> -> <<245, 0, 0, 0>>
      [] OTHER -> <<1, 128, 0, 0>>

GetterData(o) ==
    CASE o = "is_module_enabled" -> is_module_enabled_data
      [] o = "get_module_status" -> get_module_status_data
      [] o = "get_dc_output_voltage_setpoint" ->
             get_dc_output_voltage_setpoint_data
      [] o = "get_dc_output_current_setpoint" ->
             get_dc_output_current_setpoint_data
      [] o = "get_ac_input_l1_voltage" -> get_ac_input_l1_voltage_data
      [] o = "get_ac_input_l2_voltage" -> get_ac_input_l2_voltage_data
      [] o = "get_ac_input_l3_voltage" -> get_ac_input_l3_voltage_data
      [] o = "get_ambient_temperature" -> get_ambient_temperature_data

\* the 2-byte read ack of the slave: bytes 1..3 echo the request
SlaveAnswer(req) ==
    <<SUCCESSFUL_READ_RESPONSE_2_BYTES>> \o SubSeq(req.data, 2, 4)
        \o SlaveRegister(req)

facadeVars == <<node_id, verbose, pc, op, arg, request, wire, response,
                busOutcome, busLog, result, calls, flagReport>>

InitExchange ==
    /\ node_id = EVC_DEFAULT_NODE_ID
    /\ verbose = EVC_INTERFACE_VERBOSE_OUTPUT
    /\ pc = "idle"
    /\ op = "none"
    /\ arg = 0
    /\ request = NoMessage
    /\ wire = NoMessage
    /\ response = NoResponse
    /\ busOutcome = "none"
    /\ busLog = <<>>
    /\ result = NoneVal
    /\ calls = 0
    /\ flagReport = FALSE
    /\ callers = [c \in Callers |-> IdleCaller]
    /\ bus = EmptyBus

InCall(c) == callers[c].pc \in {"send", "recv"}

\* caller c enters a getter: the request is built and _query is entered
EnterGetter(c, o) ==
    /\ ~InCall(c)
    /\ bus.issued < MaxExchanges
    /\ callers' = [callers EXCEPT ![c] =
           [pc |-> "send", op |-> o, id |-> bus.issued + 1,
            pending |-> Len(bus.rx) + Len(bus.inflight),
            request |-> _canopen_message(GetterData(o)),
            response |-> NoTagged, result |-> NoneVal]]
    /\ bus' = [bus EXCEPT !.issued = bus.issued + 1]
    /\ UNCHANGED facadeVars

\* operations are externally serialized: at most one call in flight
SerializedCall ==
    \E c \in Callers, o \in ExchangeOps :
        /\ \A d \in Callers : ~InCall(d)
        /\ EnterGetter(c, o)

\* callers use the instance without serialization
ConcurrentCall ==
    \E c \in Callers, o \in ExchangeOps : EnterGetter(c, o)

\* self._bus.send returns; the slave receives the request and answers it
ExchangeSendOk(c) ==
    /\ callers[c].pc = "send"
    /\ bus' = [bus EXCEPT !.inflight = Append(bus.inflight,
                    Tagged(SlaveAnswer(callers[c].request), callers[c].id))]
    /\ callers' = [callers EXCEPT ![c].pc = "recv"]
    /\ UNCHANGED facadeVars

\* self._bus.send raises can.CanError: _query returns None
ExchangeSendRaises(c) ==
    /\ callers[c].pc = "send"
    /\ callers' = [callers EXCEPT ![c].pc = "done",
                                  ![c].response = NoTagged,
                                  ![c].result =
                                      FacadeReturn(callers[c].op, NoResponse)]
    /\ UNCHANGED <<bus, facadeVars>>

\* the answer of the slave reaches the receive buffer
AnswerArrives ==
    /\ bus.inflight # <<>>
    /\ bus' = [bus EXCEPT !.inflight = Tail(bus.inflight),
                          !.rx = Append(bus.rx, Head(bus.inflight))]
    /\ UNCHANGED <<callers, facadeVars>>

\* variant: _query returns the request instead of the frame received
ExchangeRecvFrameReturnsRequest(c) ==
    /\ callers[c].pc = "recv"
    /\ bus.rx # <<>>
    /\ bus' = [bus EXCEPT !.rx = Tail(bus.rx)]
    /\ callers' = [callers EXCEPT
           ![c].pc = "done",
           ![c].response = Tagged(callers[c].request.data, 0),
           ![c].result = FacadeReturn(callers[c].op,
                                      Frame(callers[c].request.data))]
    /\ UNCHANGED facadeVars

\* variant: the method returns None for a frame whose echoed index differs
\* from the index of its request
ExchangeRecvFrameChecksIndex(c) ==
    /\ callers[c].pc = "recv"
    /\ bus.rx # <<>>
    /\ bus' = [bus EXCEPT !.rx = Tail(bus.rx)]
    /\ callers' = [callers EXCEPT
           ![c].pc = "done",
           ![c].response = Head(bus.rx),
           ![c].result =
               IF SubSeq(Head(bus.rx).data, 2, 4)
                      = SubSeq(callers[c].request.data, 2, 4)
               THEN FacadeReturn(callers[c].op, Frame(Head(bus.rx).data))
               ELSE NoneVal]
    /\ UNCHANGED facadeVars

\* self._bus.recv returns the next frame of the receive buffer, whichever
\* request it answers; the method decodes it
ExchangeRecvFrame(c) ==
    /\ callers[c].pc = "recv"
    /\ bus.rx # <<>>
    /\ bus' = [bus EXCEPT !.rx = Tail(bus.rx)]
    /\ callers' = [callers EXCEPT
           ![c].pc = "done",
           ![c].response = Head(bus.rx),
           ![c].result = FacadeReturn(callers[c].op,
                                      Frame(Head(bus.rx).data))]
    /\ UNCHANGED facadeVars

\* self._bus.recv returns None: the buffer stayed empty for the timeout
ExchangeRecvTimeout(c) ==
    /\ callers[c].pc = "recv"
    /\ bus.rx = <<>>
    /\ callers' = [callers EXCEPT ![c].pc = "done",
                                  ![c].response = NoTagged,
                                  ![c].result =
                                      FacadeReturn(callers[c].op, NoResponse)]
    /\ UNCHANGED <<bus, facadeVars>>

\* self._bus.recv raises can.CanError: nothing is taken from the buffer
ExchangeRecvRaises(c) ==
    /\ callers[c].pc = "recv"
    /\ callers' = [callers EXCEPT ![c].pc = "done",
                                  ![c].response = NoTagged,
                                  ![c].result =
                                      FacadeReturn(callers[c].op, NoResponse)]
    /\ bus' = [bus EXCEPT !.recvRaised = TRUE]
    /\ UNCHANGED facadeVars

NextSerialized ==
    \/ SerializedCall
    \/ AnswerArrives
    \/ \E c \in Callers : ExchangeSendOk(c)
    \/ \E c \in Callers : ExchangeSendRaises(c)
    \/ \E c \in Callers : ExchangeRecvFrame(c)
    \/ \E c \in Callers : ExchangeRecvTimeout(c)
    \/ \E c \in Callers : ExchangeRecvRaises(c)

SpecSerialized == InitExchange /\ [][NextSerialized]_vars

NextConcurrent ==
    \/ ConcurrentCall
    \/ AnswerArrives
    \/ \E c \in Callers : ExchangeSendOk(c)
    \/ \E c \in Callers : ExchangeSendRaises(c)
    \/ \E c \in Callers : ExchangeRecvFrame(c)
    \/ \E c \in Callers : ExchangeRecvTimeout(c)
    \/ \E c \in Callers : ExchangeRecvRaises(c)

SpecConcurrent == InitExchange /\ [][NextConcurrent]_vars


\* C17 (as stated): with serialized operations and a slave that answers
\* every request once, possibly after the receive timeout, the frame a
\* call's _query returns is the answer to the request of that same call
\* (stated for the runs in which no receive raised a bus error).
C17_ResponseMatchesRequest ==
    \A c \in Callers :
        (callers[c].pc = "done" /\ callers[c].response.present
            /\ ~bus.recvRaised) =>
            callers[c].response.origin = callers[c].id

\* C17 (amended): with serialized operations, the frame a call's _query
\* returns is the answer to the request of that same call provided no
\* answer to an earlier request was still buffered or under way when the
\* call started.
C17_ResponseMatchesWhenNothingPending ==
    \A c \in Callers :
        (callers[c].pc = "done" /\ callers[c].response.present
            /\ callers[c].pending = 0) =>
            callers[c].response.origin = callers[c].id

\* C17 witness: a later call, started with nothing pending, has returned
\* the answer to its own request.
C17_Witness ==
    \E c \in Callers :
        /\ callers[c].pc = "done"
        /\ callers[c].id >= 2
        /\ callers[c].pending = 0
        /\ callers[c].response.present
        /\ callers[c].response.origin = callers[c].id

\* the reading a getter derives from a 2-byte read ack
ReadingOf(o, d) ==
    IF o = "get_module_status"
    THEN IntVal(d[5] + 256 * SignedByte(d[6]))
    ELSE FloatVal(d[5] + 256 * SignedByte(d[6]))

\* C18: without serialization a caller's _query can return the answer the
\* slave produced for the other caller's request, and the operation then
\* decodes it and returns it as its own reading.
C18_ForeignAnswerReturnedAsReading ==
    \A c \in Callers :
        (callers[c].pc = "done" /\ callers[c].response.present
            /\ callers[c].response.origin # callers[c].id) =>
            callers[c].result
                = ReadingOf(callers[c].op, callers[c].response.data)

\* C18 witness: caller 1 read the ambient temperature, received the answer
\* to caller 2's request for the voltage setpoint while caller 2 was still
\* waiting, and returned the setpoint 24.5 as its temperature.
C18_Witness ==
    /\ callers[1].pc = "done"
    /\ callers[1].op = "get_ambient_temperature"
    /\ callers[2].pc = "recv"
    /\ callers[2].op = "get_dc_output_voltage_setpoint"
    /\ callers[1].response.present
    /\ callers[1].response.origin = callers[2].id
    /\ SubSeq(callers[1].response.data, 2, 3)
           # SubSeq(callers[1].request.data, 2, 3)
    /\ callers[1].result = FloatVal(245)


----------------------------------------------------------------------------
(* _query and transport failures                                            *)

\* the ways the transport can fail inside _query
TransportFailures == {"send_error", "recv_timeout", "recv_error"}

\* C21: on every transport failure inside _query (send raises can.CanError,
\* recv raises can.CanError, recv times out with no frame) _query returns
\* None to the calling method and no can.CanError leaves it: the method goes
\* on with None as the response.  _query returns a frame only after a send
\* that succeeded and a recv that delivered a frame afterwards.
C21_QueryReturnsNoneOnFailure ==
    /\ (pc = "done" /\ busOutcome \in TransportFailures) =>
           /\ response = NoResponse
           /\ result.tag # "CanError"
           /\ result = FacadeReturn(op, NoResponse)
    /\ response.present =>
           /\ pc = "done"
           /\ busOutcome = "ok"
           /\ busLog = <<"send", "recv">>
           /\ wire = request

\* C21 witness: recv raised can.CanError after a successful send and _query
\* handed None to the calling method.
C21_Witness ==
    /\ pc = "done"
    /\ op \in FacadeOps
    /\ busOutcome = "recv_error"
    /\ busLog = <<"send", "recv">>
    /\ wire = request
    /\ response = NoResponse
    /\ result = FacadeReturn(op, NoResponse)

====
